---- MODULE Spec2Model ----
(***************************************************************************)
(* Model of src/utils.rs of dufs: parse_range (HTTP Range header           *)
(* resolution against a resource size) and glob (wildcard matching through *)
(* the glob crate's Pattern).                                              *)
(*                                                                         *)
(* Strings are sequences of one-character strings.  u64 is modelled with   *)
(* U64Bits bits.  `build` is the cargo profile: with overflow checks       *)
(* ("debug") an arithmetic overflow panics, without ("release") it wraps.  *)
(***************************************************************************)
EXTENDS Integers, Sequences, FiniteSets, TLC

VARIABLES build, pc, range, size, rangeResult, pattern, target, globResult

vars == <<build, pc, range, size, rangeResult, pattern, target, globResult>>

(* ---------------------------- bounds ---------------------------------- *)
U64Bits == 4
MaxSize == 4
MaxRest == 5

RECURSIVE Pow2(_)
Pow2(n) == IF n = 0 THEN 1 ELSE 2 * Pow2(n - 1)

U64Max == Pow2(U64Bits) - 1

Builds == {"debug", "release"}

SeqsUpTo(S, n) == UNION {[1..k -> S] : k \in 0..n}

(* ---------------------------- strings --------------------------------- *)
Bytes == <<"b", "y", "t", "e", "s">>

Digits == {"0", "1", "2", "3", "4", "5", "6", "7", "8", "9"}

DigitVal(c) ==
  CASE c = "0" -> 0 [] c = "1" -> 1 [] c = "2" -> 2 [] c = "3" -> 3
    [] c = "4" -> 4 [] c = "5" -> 5 [] c = "6" -> 6 [] c = "7" -> 7
    [] c = "8" -> 8 [] c = "9" -> 9

contains(s, c) == \E i \in 1..Len(s) : s[i] = c

IndexOf(s, c) == IF contains(s, c)
                 THEN CHOOSE i \in 1..Len(s) : s[i] = c /\ \A j \in 1..(i - 1) : s[j] # c
                 ELSE 0

\* str::split_once: <<>> stands for None, otherwise <<before, after>> around
\* the first occurrence of the delimiter.
split_once(s, c) ==
  IF ~contains(s, c) THEN <<>>
  ELSE LET i == IndexOf(s, c)
       IN  <<SubSeq(s, 1, i - 1), SubSeq(s, i + 1, Len(s))>>

(* ---------------------------- u64 ------------------------------------- *)
ParseErr == -1

RECURSIVE ParseDigits(_, _)
\* accumulate the digits with checked_mul / checked_add
ParseDigits(s, acc) ==
  IF s = <<>> THEN acc
  ELSE IF Head(s) \notin Digits THEN ParseErr
  ELSE LET v == acc * 10 + DigitVal(Head(s))
       IN  IF v > U64Max THEN ParseErr ELSE ParseDigits(Tail(s), v)

\* <u64 as FromStr>::from_str: an empty string and a lone sign are errors, one
\* leading '+' is skipped, a '-' is an invalid digit for an unsigned type.
ParseU64(s) ==
  IF s = <<>> THEN ParseErr
  ELSE IF Len(s) = 1 /\ Head(s) \in {"+", "-"} THEN ParseErr
  ELSE IF Head(s) = "+" THEN ParseDigits(Tail(s), 0)
  ELSE ParseDigits(s, 0)

Overflow == -1

\* a - b on u64: panics with overflow checks, wraps without
SubU64(a, b, bld) ==
  IF a >= b THEN a - b
  ELSE IF bld = "debug" THEN Overflow
  ELSE a - b + Pow2(U64Bits)

(* ---------------------------- parse_range ----------------------------- *)
None == [kind |-> "None", start |-> 0, end |-> 0]
Panic == [kind |-> "Panic", start |-> 0, end |-> 0]
Some(a, b) == IF a = Overflow \/ b = Overflow THEN Panic
              ELSE [kind |-> "Some", start |-> a, end |-> b]

\* the left side of the range-spec is empty: suffix form
SuffixRange(endStr, sz, bld) ==
  LET offset == ParseU64(endStr)
  IN  IF offset = ParseErr THEN None
      ELSE IF offset <= sz
           THEN Some(SubU64(sz, offset, bld), SubU64(sz, 1, bld))
           ELSE None

\* StartRange accepting start = size
StartRange_StartLeSize(startStr, endStr, sz, bld) ==
  LET start == ParseU64(startStr)
  IN  IF start = ParseErr THEN None
      ELSE IF start <= sz
           THEN IF endStr = <<>>
                THEN Some(start, SubU64(sz, 1, bld))
                ELSE LET end == ParseU64(endStr)
                     IN  IF end = ParseErr THEN None
                         ELSE IF end < sz THEN Some(start, end) ELSE None
           ELSE None

\* StartRange with an ordering check between start and end
StartRange_Ordered(startStr, endStr, sz, bld) ==
  LET start == ParseU64(startStr)
  IN  IF start = ParseErr THEN None
      ELSE IF start < sz
           THEN IF endStr = <<>>
                THEN Some(start, SubU64(sz, 1, bld))
                ELSE LET end == ParseU64(endStr)
                     IN  IF end = ParseErr THEN None
                         ELSE IF end < sz /\ start <= end THEN Some(start, end) ELSE None
           ELSE None

\* the left side of the range-spec is not empty: start-only and start-end
StartRange(startStr, endStr, sz, bld) ==
  LET start == ParseU64(startStr)
  IN  IF start = ParseErr THEN None
      ELSE IF start < sz
           THEN IF endStr = <<>>
                THEN Some(start, SubU64(sz, 1, bld))
                ELSE LET end == ParseU64(endStr)
                     IN  IF end = ParseErr THEN None
                         ELSE IF end < sz THEN Some(start, end) ELSE None
           ELSE None

\* UnitOk without the comparison of the unit
UnitOk_AnyUnit(unit, spec) == ~contains(spec, ",")

\* negation of the early-return condition on the unit and the comma
UnitOk(unit, spec) == ~(unit # Bytes \/ contains(spec, ","))

parse_range(hdr, sz, bld) ==
  LET eq == split_once(hdr, "=")
  IN  IF eq = <<>> THEN None
      ELSE IF ~UnitOk(eq[1], eq[2]) THEN None
      ELSE LET se == split_once(eq[2], "-")
           IN  IF se = <<>> THEN None
               ELSE IF se[1] = <<>>
                    THEN SuffixRange(se[2], sz, bld)
                    ELSE StartRange(se[1], se[2], sz, bld)

(* ---------------------------- inputs ---------------------------------- *)
RangeChars == {"0", "1", "3", "-", "+", ",", "a"}

Rests == SeqsUpTo(RangeChars, MaxRest)

\* headers "bytes=<rest>"
BytesHeaders == {Bytes \o <<"=">> \o r : r \in Rests}

\* headers whose unit is not "bytes", that have no '=' or more than one,
\* and a few longer headers
Prefixes == { Bytes, <<"B", "y", "t", "e", "s", "=">>, <<" ">> \o Bytes \o <<"=">>,
              Bytes \o <<" ", "=">>, <<"b", "y", "t", "e", "=">>, <<"=">>, <<>>,
              Bytes \o <<"=", "=">>, <<"x", "=">> \o Bytes \o <<"=">> }

Tails == { <<"0", "-">>, <<"-", "1">>, <<"0", "-", "0">>, <<"1", "-", "0">>, <<>> }

OtherHeaders == {p \o t : p \in Prefixes, t \in Tails}

LongHeaders == { Bytes \o <<"=">> \o t : t \in
                 { <<"0", "-", ",", "1", "-">>, <<"0", "-", "0", ",", "-", "1">>,
                   <<"1", "-", "2", "-", "3">>, <<" ", "1", "-">>, <<"1", "-", "b">> } }

Headers == BytesHeaders \cup OtherHeaders \cup LongHeaders

Sizes == 0..MaxSize

NoResult == [kind |-> "Unset", start |-> 0, end |-> 0]

(* ---------------------------- range machine --------------------------- *)
InitRange ==
  /\ build \in Builds
  /\ pc = "call"
  /\ range \in Headers
  /\ size \in Sizes
  /\ rangeResult = NoResult
  /\ pattern = <<>>
  /\ target = <<>>
  /\ globResult = "unset"

CallParseRange ==
  /\ pc = "call"
  /\ rangeResult' = parse_range(range, size, build)
  /\ pc' = "done"
  /\ UNCHANGED <<build, range, size, pattern, target, globResult>>

NextRange == CallParseRange

SpecRange == InitRange /\ [][NextRange]_vars

(* ---------------------------- range claims ---------------------------- *)
AllDigits(s) == s # <<>> /\ \A i \in 1..Len(s) : s[i] \in Digits

RECURSIVE DecVal(_, _)
\* the number a string of decimal digits denotes (no width)
DecVal(s, acc) == IF s = <<>> THEN acc ELSE DecVal(Tail(s), acc * 10 + DigitVal(Head(s)))

Done == pc = "done"

HasBytesPrefix(h) == Len(h) >= 6 /\ SubSeq(h, 1, 6) = Bytes \o <<"=">>

\* "bytes=-<L>"
IsSuffixForm(h) ==
  /\ HasBytesPrefix(h)
  /\ Len(h) >= 8
  /\ h[7] = "-"
  /\ AllDigits(SubSeq(h, 8, Len(h)))

SuffixLen(h) == DecVal(SubSeq(h, 8, Len(h)), 0)

\* "bytes=<start>-"
IsOpenForm(h) ==
  /\ HasBytesPrefix(h)
  /\ Len(h) >= 8
  /\ h[Len(h)] = "-"
  /\ AllDigits(SubSeq(h, 7, Len(h) - 1))

OpenStart(h) == DecVal(SubSeq(h, 7, Len(h) - 1), 0)

\* "bytes=<start>-<end>"
IsStartEndForm(h) ==
  /\ HasBytesPrefix(h)
  /\ \E i \in 8..(Len(h) - 1) :
       /\ h[i] = "-"
       /\ AllDigits(SubSeq(h, 7, i - 1))
       /\ AllDigits(SubSeq(h, i + 1, Len(h)))

DashAt(h) == CHOOSE i \in 8..(Len(h) - 1) : h[i] = "-"

FormStart(h) == DecVal(SubSeq(h, 7, DashAt(h) - 1), 0)

FormEnd(h) == DecVal(SubSeq(h, DashAt(h) + 1, Len(h)), 0)

\* C1: whenever parse_range returns Some((start, end)), 0 <= start <= end < size.
C1_ResolvedRangeInBounds ==
  (Done /\ rangeResult.kind = "Some") =>
     (0 <= rangeResult.start /\ rangeResult.start <= rangeResult.end
        /\ rangeResult.end < size)

\* C2: "bytes=-L" returns Some((size - L, size - 1)) when L <= size and None
\* when L > size.
C2_SuffixForm ==
  (Done /\ IsSuffixForm(range)) =>
     IF SuffixLen(range) <= size
     THEN rangeResult = [kind |-> "Some", start |-> size - SuffixLen(range), end |-> size - 1]
     ELSE rangeResult = None

\* C3: "bytes=<start>-" returns Some((start, size - 1)) when 0 <= start < size
\* and size > 0, and None when start >= size.
C3_OpenEndedForm ==
  (Done /\ IsOpenForm(range)) =>
     IF size > 0 /\ OpenStart(range) < size
     THEN rangeResult = [kind |-> "Some", start |-> OpenStart(range), end |-> size - 1]
     ELSE rangeResult = None

C3_Witness ==
  /\ Done /\ IsOpenForm(range) /\ OpenStart(range) = 1 /\ size = 3
  /\ rangeResult = [kind |-> "Some", start |-> 1, end |-> 2]

\* C4: "bytes=<start>-<end>" returns None if start >= size or end >= size and
\* otherwise exactly Some((start, end)), also when end < start.
C4_StartEndForm ==
  (Done /\ IsStartEndForm(range)) =>
     IF FormStart(range) >= size \/ FormEnd(range) >= size
     THEN rangeResult = None
     ELSE rangeResult = [kind |-> "Some", start |-> FormStart(range), end |-> FormEnd(range)]

C4_Witness ==
  /\ Done /\ IsStartEndForm(range)
  /\ FormEnd(range) < FormStart(range) /\ FormStart(range) < size
  /\ rangeResult = [kind |-> "Some", start |-> FormStart(range), end |-> FormEnd(range)]

NoEquals(h) == \A i \in 1..Len(h) : h[i] # "="

FirstEquals(h) == CHOOSE i \in 1..Len(h) : h[i] = "=" /\ \A j \in 1..(i - 1) : h[j] # "="

UnitToken(h) == SubSeq(h, 1, FirstEquals(h) - 1)

AfterEquals(h) == SubSeq(h, FirstEquals(h) + 1, Len(h))

HasComma(s) == \E i \in 1..Len(s) : s[i] = ","

\* C5: a header with no '=', with a unit other than exactly "bytes", or with a
\* comma after the first '=' resolves to None.
C5_UnitAndMultiRange ==
  (Done /\ (NoEquals(range) \/ UnitToken(range) # Bytes \/ HasComma(AfterEquals(range))))
     => rangeResult = None

\* a multi-range header each of whose parts is satisfiable on its own
C5_Witness ==
  /\ Done /\ size = 4
  /\ range = Bytes \o <<"=", "0", "-", ",", "1", "-">>
  /\ rangeResult = None

\* a field that must be a number is empty or has a non-digit character
BadNumericField(h) ==
  /\ HasBytesPrefix(h)
  /\ \E i \in 7..Len(h) :
       /\ h[i] = "-"
       /\ \A j \in 7..(i - 1) : h[j] # "-"
       /\ LET left == SubSeq(h, 7, i - 1)
              right == SubSeq(h, i + 1, Len(h))
          IN  IF left = <<>> THEN ~AllDigits(right)
              ELSE ~AllDigits(left) \/ (right # <<>> /\ ~AllDigits(right))

\* C8: parse_range returns None whenever a field that must be a number is
\* empty or contains a non-digit character.
C8_NonNumericFieldRejected ==
  (Done /\ BadNumericField(range)) => rangeResult = None

\* C9: parse_range never panics and no subtraction underflows; on a zero-size
\* resource every start-only, start-end and non-zero suffix header is None.
C9_NoPanicNoUnderflow ==
  Done =>
     /\ rangeResult.kind # "Panic"
     /\ (rangeResult.kind = "Some" => size >= 1)
     /\ ((size = 0 /\ (IsOpenForm(range) \/ IsStartEndForm(range)
                        \/ (IsSuffixForm(range) /\ SuffixLen(range) > 0)))
           => rangeResult = None)

(* ---------------------------- glob::Pattern --------------------------- *)
\* std::path::is_separator on unix ('\\' is not in the model's alphabets, so
\* the windows definition agrees on them)
is_separator(c) == c = "/"

\* code points of the characters the model uses
CharOrd(c) ==
  CASE c = "!" -> 33 [] c = "*" -> 42 [] c = "-" -> 45 [] c = "." -> 46
    [] c = "/" -> 47 [] c = "?" -> 63 [] c = "[" -> 91 [] c = "]" -> 93
    [] c = "a" -> 97 [] c = "b" -> 98 [] c = "c" -> 99

AnyChar == [t |-> "AnyChar", c |-> "", cs |-> <<>>]
AnySequence == [t |-> "AnySequence", c |-> "", cs |-> <<>>]
AnyRecursiveSequence == [t |-> "AnyRecursiveSequence", c |-> "", cs |-> <<>>]
Char(ch) == [t |-> "Char", c |-> ch, cs |-> <<>>]
AnyWithin(specs) == [t |-> "AnyWithin", c |-> "", cs |-> specs]
AnyExcept(specs) == [t |-> "AnyExcept", c |-> "", cs |-> specs]

SingleChar(ch) == [k |-> "SingleChar", a |-> ch, b |-> ch]
CharRange(lo, hi) == [k |-> "CharRange", a |-> lo, b |-> hi]

RECURSIVE parse_char_specifiers(_)
\* "x-y" is a range, any other character stands for itself
parse_char_specifiers(s) ==
  IF s = <<>> THEN <<>>
  ELSE IF 3 <= Len(s) /\ s[2] = "-"
       THEN <<CharRange(s[1], s[3])>> \o parse_char_specifiers(SubSeq(s, 4, Len(s)))
       ELSE <<SingleChar(s[1])>> \o parse_char_specifiers(Tail(s))

\* with case_sensitive = true
in_char_specifiers(specs, c) ==
  \E i \in 1..Len(specs) :
     IF specs[i].k = "SingleChar" THEN c = specs[i].a
     ELSE CharOrd(c) >= CharOrd(specs[i].a) /\ CharOrd(c) <= CharOrd(specs[i].b)

PatternError == [ok |-> FALSE, tokens |-> <<>>]
PatternOk(toks) == [ok |-> TRUE, tokens |-> toks]

\* offset of the first c in s[from..], counted from `from` (0-based), or -1
Position(s, from, c) ==
  IF \E k \in from..(Len(s) - 1) : s[k + 1] = c
  THEN (CHOOSE k \in from..(Len(s) - 1) : s[k + 1] = c /\ \A m \in from..(k - 1) : s[m + 1] # c) - from
  ELSE -1

\* index just after the run of '*' that starts at i (0-based)
StarRunEnd(s, i) ==
  CHOOSE j \in (i + 1)..Len(s) :
     /\ \A k \in i..(j - 1) : s[k + 1] = "*"
     /\ (j = Len(s) \/ s[j + 1] # "*")

\* consecutive AnyRecursiveSequence tokens collapse to a single one
PushRecursive(toks) ==
  IF ~(Len(toks) > 1 /\ toks[Len(toks)] = AnyRecursiveSequence)
  THEN Append(toks, AnyRecursiveSequence)
  ELSE toks

RECURSIVE PatternNew(_, _, _)
\* glob::Pattern::new: the loop over chars, i is the 0-based index
PatternNew(chars, i, toks) ==
  IF i >= Len(chars) THEN PatternOk(toks)
  ELSE LET ch == chars[i + 1]
           n == Len(chars)
       IN
       IF ch = "?" THEN PatternNew(chars, i + 1, Append(toks, AnyChar))
       ELSE IF ch = "*" THEN
         LET j == StarRunEnd(chars, i)
             count == j - i
         IN  IF count > 2 THEN PatternError
             ELSE IF count = 2 THEN
               IF j = 2 \/ is_separator(chars[j - 2])
               THEN IF j < n /\ is_separator(chars[j + 1])
                    THEN PatternNew(chars, j + 1, PushRecursive(toks))
                    ELSE IF j = n
                         THEN PatternNew(chars, j, PushRecursive(toks))
                         ELSE PatternError
               ELSE PatternError
             ELSE PatternNew(chars, j, Append(toks, AnySequence))
       ELSE IF ch = "[" THEN
         IF i + 4 <= n /\ chars[i + 2] = "!"
         THEN LET j == Position(chars, i + 3, "]")
              IN  IF j = -1 THEN PatternError
                  ELSE PatternNew(chars, i + j + 4,
                         Append(toks, AnyExcept(parse_char_specifiers(SubSeq(chars, i + 3, i + 3 + j)))))
         ELSE IF i + 3 <= n /\ chars[i + 2] # "!"
         THEN LET j == Position(chars, i + 2, "]")
              IN  IF j = -1 THEN PatternError
                  ELSE PatternNew(chars, i + j + 3,
                         Append(toks, AnyWithin(parse_char_specifiers(SubSeq(chars, i + 2, i + 2 + j)))))
         ELSE PatternError
       ELSE PatternNew(chars, i + 1, Append(toks, Char(ch)))

\* a non-wildcard token against one character, with the default MatchOptions
TokenMatches(tok, c) ==
  CASE tok.t = "AnyChar" -> TRUE
    [] tok.t = "AnyWithin" -> in_char_specifiers(tok.cs, c)
    [] tok.t = "AnyExcept" -> ~in_char_specifiers(tok.cs, c)
    [] tok.t = "Char" -> c = tok.c

IsStar(tok) == tok.t \in {"AnySequence", "AnyRecursiveSequence"}

RECURSIVE matches_from(_, _, _, _, _)
RECURSIVE StarLoop(_, _, _, _, _)
\* Pattern::matches_from from token i (1-based) on; results are "Match",
\* "SubPatternDoesntMatch", "EntirePatternDoesntMatch", and "Panic" where the
\* debug_assert on AnyRecursiveSequence fails in a build with debug assertions
matches_from(toks, follows_separator, file, i, bld) ==
  IF i > Len(toks)
  THEN IF file = <<>> THEN "Match" ELSE "SubPatternDoesntMatch"
  ELSE IF IsStar(toks[i])
  THEN IF bld = "debug" /\ toks[i] = AnyRecursiveSequence /\ ~follows_separator
       THEN "Panic"
       ELSE LET m == matches_from(toks, follows_separator, file, i + 1, bld)
            IN  IF m # "SubPatternDoesntMatch" THEN m
                ELSE StarLoop(toks, follows_separator, file, i, bld)
  ELSE IF file = <<>> THEN "EntirePatternDoesntMatch"
       ELSE IF ~TokenMatches(toks[i], Head(file)) THEN "SubPatternDoesntMatch"
       ELSE matches_from(toks, is_separator(Head(file)), Tail(file), i + 1, bld)

\* the `while let Some(c) = file.next()` loop of a wildcard token; when the
\* file is exhausted the for loop goes on with the next token
StarLoop(toks, follows_separator, file, i, bld) ==
  IF file = <<>> THEN matches_from(toks, follows_separator, file, i + 1, bld)
  ELSE LET sep == is_separator(Head(file))
       IN  IF toks[i] = AnyRecursiveSequence /\ ~sep
           THEN StarLoop(toks, sep, Tail(file), i, bld)
           ELSE LET m == matches_from(toks, sep, Tail(file), i + 1, bld)
                IN  IF m # "SubPatternDoesntMatch" THEN m
                    ELSE StarLoop(toks, sep, Tail(file), i, bld)

\* Pattern::matches
PatternMatches(toks, str, bld) ==
  LET m == matches_from(toks, TRUE, str, 1, bld)
  IN  IF m = "Panic" THEN "panic"
      ELSE IF m = "Match" THEN "true" ELSE "false"

\* glob matching the tokens read before a pattern error instead of
\* returning false
glob_ErrIsMatch(pat, tgt, bld) ==
  LET compiled == PatternNew(pat, 0, <<>>)
  IN  IF ~compiled.ok THEN "true"
      ELSE PatternMatches(compiled.tokens, tgt, bld)

glob(pat, tgt, bld) ==
  LET compiled == PatternNew(pat, 0, <<>>)
  IN  IF ~compiled.ok THEN "false"
      ELSE PatternMatches(compiled.tokens, tgt, bld)

(* ---------------------------- glob machine ---------------------------- *)
MaxPat == 4
MaxTgt == 3

Ordinary == {"a", "/", "."}
WildChars == Ordinary \cup {"*", "?"}
ClassChars == {"a", "[", "]", "!"}

RangePatterns == { <<"[", "a", "-", "b", "]">>, <<"[", "!", "a", "-", "b", "]">>,
                   <<"[", "a", "-">>, <<"a", "-", "b">>, <<"[", "-", "]">>,
                   <<"[", "b", "-", "a", "]">> }

RangeTargets == { <<"a">>, <<"b">>, <<"c">>, <<"-">>, <<"a", "-", "b">>, <<>> }

GlobInputs ==
  (SeqsUpTo(WildChars, MaxPat) \X SeqsUpTo(Ordinary, MaxTgt))
    \cup (SeqsUpTo(ClassChars, MaxPat) \X SeqsUpTo(ClassChars, MaxTgt))
    \cup (RangePatterns \X RangeTargets)

InitGlob ==
  /\ build \in Builds
  /\ pc = "call"
  /\ range = <<>>
  /\ size = 0
  /\ rangeResult = NoResult
  /\ \E in \in GlobInputs : pattern = in[1] /\ target = in[2]
  /\ globResult = "unset"

CallGlob ==
  /\ pc = "call"
  /\ globResult' = glob(pattern, target, build)
  /\ pc' = "done"
  /\ UNCHANGED <<build, range, size, rangeResult, pattern, target>>

NextGlob == CallGlob

SpecGlob == InitGlob /\ [][NextGlob]_vars

(* ---------------------------- glob claims ----------------------------- *)
OnlyChars(s, S) == \A i \in 1..Len(s) : s[i] \in S

RECURSIVE RefMatch(_, _)
\* anchored reference matcher: literal, '?' one character, '*' any run
RefMatch(p, t) ==
  IF p = <<>> THEN t = <<>>
  ELSE IF Head(p) = "*" THEN RefMatch(Tail(p), t) \/ (t # <<>> /\ RefMatch(p, Tail(t)))
  ELSE IF Head(p) = "?" THEN t # <<>> /\ RefMatch(Tail(p), Tail(t))
  ELSE t # <<>> /\ Head(t) = Head(p) /\ RefMatch(Tail(p), Tail(t))

\* C6: over ordinary characters plus '*' and '?', glob returns true exactly
\* when the anchored reference matcher does.
C6_GlobIsReferenceMatch ==
  (Done /\ OnlyChars(pattern, WildChars) /\ OnlyChars(target, WildChars))
     => ((globResult = "true") <=> RefMatch(pattern, target))

\* C7: for a pattern with neither '*' nor '?', glob is true iff the target
\* equals the pattern character for character.
C7_NonWildcardIsLiteral ==
  (Done /\ ~contains(pattern, "*") /\ ~contains(pattern, "?"))
     => ((globResult = "true") <=> target = pattern)

\* C10: a pattern the glob engine cannot compile gives false for every
\* target, and glob never panics.
C10_MalformedPatternIsFalse ==
  Done =>
     /\ globResult \in {"true", "false"}
     /\ (~PatternNew(pattern, 0, <<>>).ok => globResult = "false")

C10_Witness ==
  /\ Done
  /\ pattern = <<"a", "*", "*">>
  /\ target = <<"a">>
  /\ globResult = "false"

====
